---- MODULE Spec2Model ----
(***************************************************************************)
(* JobSync: reconciliation of extracted job-application candidates into    *)
(* the Notion record store (agent/notion_utils.py).                         *)
(*                                                                         *)
(* The store is the Notion database: a list of pages, each with the        *)
(* properties Company, Job Title, Status, Applied On, Notes and            *)
(* Application ID.  create_or_update_entry resolves a candidate against    *)
(* the store (by Application ID, then by company + job title) and either   *)
(* updates the page it found or creates a new one.  Every call to the      *)
(* Notion API may raise; the code catches the exception.                   *)
(***************************************************************************)
EXTENDS Integers, Sequences, FiniteSets, TLC

(***************************************************************************)
(* Bounds of the model.                                                    *)
(***************************************************************************)
MaxRecords == 2       \* pages the database may hold
NumDates == 2         \* distinct application dates
MaxNotesLen == 11     \* characters of a stored Notes text

(***************************************************************************)
(* Input domains.  A text is a sequence of characters; the blank line      *)
(* "\n\n", the word "[Update " and a date each count as one character.     *)
(***************************************************************************)
DateSeq == << "2024-01-01", "2024-01-02", "2024-01-03", "2024-01-04" >>
Dates == { DateSeq[i] : i \in 1..NumDates }
Statuses == { "Applied", "Assessment", "Interview", "Offer", "Rejected" }
Companies == { "Acme", "Globex" }
Titles == { "Engineer", "Analyst" }
NoId == ""            \* app_id None / "" : no Application ID
AppIds == { "R1", "R2" }
NoteTexts == { << >>, << "a" >>, << "a", " " >>, << " ", "a" >> }

NoPage == 0           \* Python None where a page is expected

VARIABLES
    pages,    \* the Notion database: sequence of pages, in creation order
    prev,     \* the database as it was before the last call
    last,     \* the last call of create_or_update_entry and its outcome
    retry,    \* the running or finished call of invoke_with_retry
    cls,      \* the running or finished call of is_job_application
    sync,     \* the run of daily_sync
    wf        \* the run of JobSyncWorkflow

storeVars == << pages, prev, last >>

nonStoreVars == << retry, cls, sync, wf >>

vars == << pages, prev, last, retry, cls, sync, wf >>

(***************************************************************************)
(* Text helpers: Python's `in` on strings and str.strip().                 *)
(***************************************************************************)
IsSubstring(s, t) ==
    \E i \in 0..(Len(t) - Len(s)) : SubSeq(t, i + 1, i + Len(s)) = s

IsSpace(ch) == ch \in { " ", "\n\n" }

RECURSIVE LStrip(_)
LStrip(s) ==
    IF s # << >> /\ IsSpace(Head(s)) THEN LStrip(Tail(s)) ELSE s

RECURSIVE RStrip(_)
RStrip(s) ==
    IF s # << >> /\ IsSpace(s[Len(s)]) THEN RStrip(SubSeq(s, 1, Len(s) - 1)) ELSE s

Strip(s) == RStrip(LStrip(s))

\* f"{old_notes_text}\n\n[Update {applied_on}] {notes}".strip()
AppendedNotes(old_notes_text, applied_on, notes) ==
    Strip(old_notes_text \o << "\n\n", "[Update ", applied_on, "]", " " >> \o notes)

(***************************************************************************)
(* Store queries.  Each returns the set of values the function can return: *)
(* NoPage when the query raises or finds nothing, otherwise results[0],    *)
(* where the order of the results is the store's choice.                   *)
(***************************************************************************)
find_entry_by_app_id(app_id, raises) ==
    IF app_id = NoId THEN { NoPage }
    ELSE IF raises THEN { NoPage }
    ELSE LET results == { i \in 1..Len(pages) : pages[i].app_id = app_id }
         IN  IF results = {} THEN { NoPage } ELSE results

find_entry_by_company_title(company, job_title, raises) ==
    IF raises THEN { NoPage }
    ELSE LET results == { i \in 1..Len(pages) : pages[i].company = company }
             hits == { i \in results : pages[i].job_title = job_title }
         IN  IF hits = {} THEN { NoPage } ELSE hits

(***************************************************************************)
(* The properties written by the update branch and by the create branch.   *)
(***************************************************************************)
UpdatedNotes(page, c) ==
    IF c.notes # << >> /\ ~IsSubstring(c.notes, page.notes)
    THEN AppendedNotes(page.notes, c.applied_on, c.notes)
    ELSE page.notes

\* as UpdatedPage, but the update also writes Applied On, as the create does
UpdatedPageWritesAppliedOn(page, c) ==
    [ page EXCEPT !.status = c.status,
                  !.applied_on = c.applied_on,
                  !.app_id = IF c.app_id # NoId THEN c.app_id ELSE @,
                  !.notes = UpdatedNotes(page, c) ]

\* as UpdatedPage, but the update also writes Company and Job Title, as the
\* create does
UpdatedPageWritesIdentity(page, c) ==
    [ page EXCEPT !.company = c.company,
                  !.job_title = c.job_title,
                  !.status = c.status,
                  !.app_id = IF c.app_id # NoId THEN c.app_id ELSE @,
                  !.notes = UpdatedNotes(page, c) ]

UpdatedPage(page, c) ==
    [ page EXCEPT !.status = c.status,
                  !.app_id = IF c.app_id # NoId THEN c.app_id ELSE @,
                  !.notes = UpdatedNotes(page, c) ]

\* as CreatedPage, but every new page starts as Applied
CreatedPageAlwaysApplied(c) ==
    [ company |-> c.company, job_title |-> c.job_title, status |-> "Applied",
      applied_on |-> c.applied_on, notes |-> c.notes, app_id |-> c.app_id ]

CreatedPage(c) ==
    [ company |-> c.company, job_title |-> c.job_title, status |-> c.status,
      applied_on |-> c.applied_on, notes |-> c.notes, app_id |-> c.app_id ]

\* as MissingRequired, but refusing only when both fields are missing
MissingRequiredBoth(c) == c.company = "" /\ c.job_title = ""

\* as MissingRequired, but only the company is validated
MissingRequiredCompanyOnly(c) == c.company = ""

\* if not company or not job_title
MissingRequired(c) == c.company = "" \/ c.job_title = ""

\* what a call did: the page resolution selected (existing), the returned
\* (result, was_updated), the Notion API calls issued and those that raised
Outcome(c, op, existing, result, was_updated, calls, raised) ==
    [ cand |-> c, op |-> op, existing |-> existing, result |-> result,
      was_updated |-> was_updated, calls |-> calls, raised |-> raised ]

(***************************************************************************)
(* create_or_update_entry(company, job_title, status, applied_on, notes,   *)
(* app_id).  idRaises, coRaises, writeRaises: whether the query by         *)
(* Application ID, the query by company, and pages.update / pages.create   *)
(* raise in this call.                                                     *)
(***************************************************************************)
create_or_update_entry(c, idRaises, coRaises, writeRaises) ==
    /\ prev' = pages
    /\ IF MissingRequired(c)
       THEN /\ pages' = pages
            /\ last' = Outcome(c, "refused", NoPage, NoPage, FALSE, << >>, {})
       ELSE \E byId \in find_entry_by_app_id(c.app_id, idRaises) :
            \E existing_page \in
                   IF byId # NoPage THEN { byId }
                   ELSE find_entry_by_company_title(c.company, c.job_title, coRaises) :
              LET queries == (IF c.app_id # NoId THEN << "query_app_id" >> ELSE << >>)
                             \o (IF byId = NoPage THEN << "query_company" >> ELSE << >>)
                  qRaised == { q \in { "query_app_id" } : c.app_id # NoId /\ idRaises }
                             \cup { q \in { "query_company" } : byId = NoPage /\ coRaises }
                  wRaised(w) == { x \in { w } : writeRaises }
              IN
              IF existing_page # NoPage
              THEN IF writeRaises
                   THEN /\ pages' = pages
                        /\ last' = Outcome(c, "update_failed", existing_page, NoPage, FALSE,
                                           Append(queries, "update"), qRaised \cup wRaised("update"))
                   ELSE /\ Len(UpdatedNotes(pages[existing_page], c)) <= MaxNotesLen
                        /\ pages' = [ pages EXCEPT ![existing_page] = UpdatedPage(@, c) ]
                        /\ last' = Outcome(c, "updated", existing_page, existing_page, TRUE,
                                           Append(queries, "update"), qRaised)
              ELSE IF writeRaises
                   THEN /\ pages' = pages
                        /\ last' = Outcome(c, "create_failed", NoPage, NoPage, FALSE,
                                           Append(queries, "create"), qRaised \cup wRaised("create"))
                   ELSE /\ Len(pages) < MaxRecords
                        /\ pages' = Append(pages, CreatedPage(c))
                        /\ last' = Outcome(c, "created", NoPage, Len(pages) + 1, FALSE,
                                           Append(queries, "create"), qRaised)

(***************************************************************************)
(* invoke_with_retry(chain, params, max_retries=3, delay=10)               *)
(* (agent/llm_utils.py).  An invocation of the chain either returns a      *)
(* response or raises an error; both carry a text, a sequence of words.    *)
(***************************************************************************)
max_retries_default == 3
delay_default == 10
MaxRetriesArg == 3    \* largest max_retries a caller passes

DelayArgs == { 1, delay_default }

\* str.lower() / str.upper() on one word
LowerWord(w) ==
    CASE w = "Rate" -> "rate"
      [] w = "Too" -> "too"
      [] w = "Many" -> "many"
      [] w = "Requests" -> "requests"
      [] w = "APPLICATION" -> "application"
      [] w = "Application" -> "application"
      [] w = "NOTIFICATION" -> "notification"
      [] w = "OTHER" -> "other"
      [] w = "GitHub Actions" -> "github actions"
      [] w = "Interview" -> "interview"
      [] w = "New Jobs" -> "new jobs"
      [] OTHER -> w

UpperWord(w) ==
    CASE LowerWord(w) = "application" -> "APPLICATION"
      [] LowerWord(w) = "notification" -> "NOTIFICATION"
      [] LowerWord(w) = "other" -> "OTHER"
      [] OTHER -> w

Lower(s) == [ k \in 1..Len(s) |-> LowerWord(s[k]) ]
Upper(s) == [ k \in 1..Len(s) |-> UpperWord(s[k]) ]

\* the texts of the errors the chain raises
ErrorTexts ==
    { << "Error", "code:", "429" >>,
      << "Rate", "limit", "exceeded" >>,
      << "Too", "Many", "Requests" >>,
      << "provider", "is", "rate-limited" >>,
      << "Connection", "timed", "out" >>,
      << "Internal", "server", "error" >> }

RateLimitMarkers ==
    { << "429" >>, << "rate", "limit" >>, << "too", "many", "requests" >>,
      << "rate-limited" >> }

\* as is_rate_limit, but the error text is not lower-cased first
is_rate_limit_case_sensitive(error_text) ==
    \E m \in RateLimitMarkers : IsSubstring(m, error_text)

\* as is_rate_limit, but every error counts as a rate limit
is_rate_limit_any_error(error_text) == TRUE

\* error_str = str(e).lower(); "429" in error_str or "rate limit" in ...
is_rate_limit(error_text) ==
    \E m \in RateLimitMarkers : IsSubstring(m, Lower(error_text))

\* as wait_time, but the same delay before every retry
wait_time_constant(delay, attempt) == delay

\* wait_time = delay * (attempt + 1)
wait_time(delay, attempt) == delay * (attempt + 1)

RetryIdle ==
    [ pc |-> "idle", max_retries |-> 0, delay |-> 0, attempt |-> 0,
      outcomes |-> << >>, waits |-> << >>, result |-> "pending", value |-> << >> ]

\* entry: for attempt in range(max_retries)
RetryStart(max_retries, delay) ==
    /\ retry.pc # "running"
    /\ retry' = [ RetryIdle EXCEPT !.pc = "running", !.max_retries = max_retries,
                                   !.delay = delay ]

\* one pass of the loop body: chain.invoke(params) returns or raises
RetryAttempt(out) ==
    /\ retry.pc = "running"
    /\ retry.attempt < retry.max_retries
    /\ IF out.kind = "ok"
       THEN retry' = [ retry EXCEPT !.pc = "returned", !.result = "value",
                                    !.value = out.text,
                                    !.outcomes = Append(@, out) ]
       ELSE IF is_rate_limit(out.text) /\ retry.attempt < retry.max_retries - 1
            THEN retry' = [ retry EXCEPT !.attempt = @ + 1,
                                         !.waits = Append(@, wait_time(retry.delay, retry.attempt)),
                                         !.outcomes = Append(@, out) ]
            ELSE retry' = [ retry EXCEPT !.pc = "raised", !.result = "raised",
                                         !.value = out.text,
                                         !.outcomes = Append(@, out) ]

\* the loop ran out of attempts: return None
RetryExhausted ==
    /\ retry.pc = "running"
    /\ retry.attempt >= retry.max_retries
    /\ retry' = [ retry EXCEPT !.pc = "returned", !.result = "None" ]

(***************************************************************************)
(* is_job_application(subject, sender, text) (agent/llm_utils.py).  A      *)
(* subject or body is a sequence of phrases; a keyword is found in it when *)
(* one of its phrases, lower-cased, is the keyword.                        *)
(***************************************************************************)
MaxBodyLen == 3       \* phrases of a message body
BodyWindow == 2       \* phrases of the body the rules read (text[:500])

notification_keywords ==
    { "job alert", "new jobs", "job recommendation", "might be interested",
      "top matches", "jobs match", "hiring for", "has new", "jobs open",
      "be the first to apply", "just posted", "% match from jobright",
      "jobs like you", "job opportunities", "recommended for you" }

other_keywords ==
    { "github actions", "workflow", "run failed", "federating", "sso",
      "identity provider", "newsletter", "community update" }

application_patterns ==
    { "application received", "application submitted", "application status",
      "interview", "offer", "unfortunately", "not moving forward",
      "thank you for applying", "your application to", "application for",
      "progress with other candidates", "pursue other candidates",
      "not selected", "position has been filled", "we regret" }

\* text[:n]
Prefix(s, n) == SubSeq(s, 1, IF Len(s) < n THEN Len(s) ELSE n)

\* any(keyword in subject_lower or keyword in text_lower for keyword in keywords)
AnyKeyword(keywords, subject, text) ==
    LET subject_lower == Lower(subject)
        text_lower == Lower(Prefix(text, BodyWindow))
    IN  \/ \E k \in 1..Len(subject_lower) : subject_lower[k] \in keywords
        \/ \E k \in 1..Len(text_lower) : text_lower[k] \in keywords

\* as RuleVerdict, but the application patterns are tried before the OTHER keywords
RuleVerdictApplicationFirst(subject, text) ==
    IF AnyKeyword(application_patterns, subject, text) THEN "True"
    ELSE IF AnyKeyword(other_keywords, subject, text) THEN "False"
    ELSE IF AnyKeyword(notification_keywords, subject, text) THEN "False"
    ELSE "unclear"

\* as RuleVerdict, but the notification keywords are tried before the application patterns
RuleVerdictNotificationFirst(subject, text) ==
    IF AnyKeyword(other_keywords, subject, text) THEN "False"
    ELSE IF AnyKeyword(notification_keywords, subject, text) THEN "False"
    ELSE IF AnyKeyword(application_patterns, subject, text) THEN "True"
    ELSE "unclear"

\* the quick filters, in the order of the code
RuleVerdict(subject, text) ==
    IF AnyKeyword(other_keywords, subject, text) THEN "False"
    ELSE IF AnyKeyword(application_patterns, subject, text) THEN "True"
    ELSE IF AnyKeyword(notification_keywords, subject, text) THEN "False"
    ELSE "unclear"

\* as LlmVerdict, but any response that mentions APPLICATION counts
LlmVerdictMentions(content) ==
    IF \E k \in 1..Len(content) : UpperWord(content[k]) = "APPLICATION"
    THEN "True" ELSE "False"

\* classification = result.content.strip().upper(); classification == "APPLICATION"
LlmVerdict(content) ==
    IF Upper(Strip(content)) = << "APPLICATION" >> THEN "True" ELSE "False"

ClsIdle ==
    [ pc |-> "idle", subject |-> << >>, sender_none |-> FALSE, text |-> << >>,
      verdict |-> "pending" ]

\* entry of is_job_application up to the call of invoke_with_retry.  A
\* sender of None makes sender[:100] raise inside the try: return False.
ClsStart(subject, sender_none, text) ==
    /\ cls.pc # "llm"
    /\ LET verdict == RuleVerdict(subject, text)
           m == [ ClsIdle EXCEPT !.subject = subject, !.sender_none = sender_none,
                                 !.text = text ]
       IN  IF verdict # "unclear"
           THEN /\ cls' = [ m EXCEPT !.pc = "done", !.verdict = verdict ]
                /\ retry' = RetryIdle
           ELSE IF sender_none
           THEN /\ cls' = [ m EXCEPT !.pc = "done", !.verdict = "False" ]
                /\ retry' = RetryIdle
           ELSE /\ cls' = [ m EXCEPT !.pc = "llm" ]
                /\ RetryStart(max_retries_default, delay_default)

\* one invocation of the classification chain inside invoke_with_retry
ClsInvoke(out) ==
    /\ cls.pc = "llm"
    /\ RetryAttempt(out)
    /\ UNCHANGED cls

\* invoke_with_retry has returned or raised: lines 216-224
ClsFinish ==
    /\ cls.pc = "llm"
    /\ retry.pc \in { "returned", "raised" }
    /\ cls' = [ cls EXCEPT !.pc = "done",
                           !.verdict = IF retry.result = "value"
                                       THEN LlmVerdict(retry.value)
                                       ELSE "False" ]
    /\ UNCHANGED retry

(***************************************************************************)
(* parse_email (agent/llm_utils.py) and daily_sync (agent/main.py).  The   *)
(* response of the extraction chain is a sequence of words; a JSON         *)
(* document is one word, named after what it holds.                        *)
(***************************************************************************)
MaxEmails == 2        \* messages get_recent_emails returns

Today == DateSeq[2]   \* datetime.now().date().isoformat()

\* the JSON documents the extraction chain can answer with
JsonDocs == { "{interview}", "{pending}", "{nodate}", "{nulldate}", "{nocompany}",
              "{globex}", "[]" }

None == "None"        \* Python's None, the value of a JSON null
Absent == "absent"    \* a key the object does not have

\* json.loads of a document: whether it is an object, and its members
JsonDoc(word) ==
    CASE word = "{interview}" ->
           [ is_object |-> TRUE, company |-> "Acme", job_title |-> "Engineer",
             status |-> "Interview", application_date |-> DateSeq[1],
             notes |-> << "a" >>, application_id |-> "R1" ]
      [] word = "{pending}" ->
           [ is_object |-> TRUE, company |-> "Acme", job_title |-> "Engineer",
             status |-> "Pending", application_date |-> DateSeq[1],
             notes |-> << "a" >>, application_id |-> NoId ]
      [] word = "{nodate}" ->
           [ is_object |-> TRUE, company |-> "Acme", job_title |-> "Engineer",
             status |-> "Applied", application_date |-> Absent,
             notes |-> << >>, application_id |-> NoId ]
      [] word = "{nulldate}" ->
           [ is_object |-> TRUE, company |-> "Acme", job_title |-> "Engineer",
             status |-> "Applied", application_date |-> None,
             notes |-> << >>, application_id |-> NoId ]
      [] word = "{nocompany}" ->
           [ is_object |-> TRUE, company |-> "", job_title |-> "Engineer",
             status |-> "Applied", application_date |-> DateSeq[1],
             notes |-> << >>, application_id |-> NoId ]
      [] word = "{globex}" ->
           [ is_object |-> TRUE, company |-> "Globex", job_title |-> "Analyst",
             status |-> "Offer", application_date |-> DateSeq[1],
             notes |-> << >>, application_id |-> "R1" ]
      [] OTHER ->
           [ is_object |-> FALSE, company |-> "", job_title |-> "",
             status |-> "", application_date |-> "", notes |-> << >>,
             application_id |-> NoId ]

\* the markdown fence, three backquotes
Fence == "~~~"

\* content.split(fence)[1] of a content that starts with the fence
RECURSIVE UpToFence(_)
UpToFence(s) ==
    IF s = << >> \/ Head(s) = Fence THEN << >>
    ELSE << Head(s) >> \o UpToFence(Tail(s))

\* lines 261-267: strip, drop a markdown fence and a leading "json", strip
CleanContent(response) ==
    LET content == Strip(response)
    IN  IF content # << >> /\ Head(content) = Fence
        THEN LET inner == UpToFence(Tail(content))
             IN  Strip(IF inner # << >> /\ Head(inner) = "json" THEN Tail(inner) ELSE inner)
        ELSE content

\* json.loads(content) does not raise
IsJson(content) == Len(content) = 1 /\ content[1] \in JsonDocs

\* what parse_email returns once invoke_with_retry has ended with result
\* (and value): the cleaned content, or << >> for None
ParsedContent(result, value) ==
    IF result # "value" THEN << >>
    ELSE IF ~IsJson(CleanContent(value)) THEN << >>
    ELSE CleanContent(value)

\* data.get("application_date", today): today only when the key is absent
DateOrToday(data) ==
    IF data.application_date = Absent THEN Today ELSE data.application_date

\* the arguments daily_sync passes to create_or_update_entry (lines 42-57)
CandidateOf(data) ==
    [ company |-> data.company, job_title |-> data.job_title, status |-> data.status,
      applied_on |-> DateOrToday(data), notes |-> data.notes,
      app_id |-> data.application_id ]

\* what daily_sync does for one message
SyncOps == { "classify", "extract", "store" }

\* ops, verdicts: what was done for each message of the run and how it was
\* classified; saves: the calls of save_cache; later: a run after the first
\* one; completed: the messages of the earlier run when it reached its end
SyncIdle ==
    [ pc |-> "idle", n |-> 0, i |-> 0, seen |-> {}, new_ids |-> {}, saved |-> {},
      subject_none |-> FALSE, response |-> << >>, parsed |-> << >>,
      merged |-> FALSE, error |-> "", ops |-> << >>, verdicts |-> << >>,
      saves |-> 0, later |-> FALSE, completed |-> {} ]

\* the fields of a run that starts with the cache seen and n fetched messages
SyncRun(seen, n) ==
    [ SyncIdle EXCEPT !.pc = "loop", !.n = n, !.seen = seen, !.new_ids = seen,
                      !.ops = [ mid \in 1..n |-> {} ],
                      !.verdicts = [ mid \in 1..n |-> "none" ] ]

\* seen = load_cache(); emails = get_recent_emails(10); new_ids = set(seen)
SyncStart(seen, n) ==
    /\ sync.pc = "idle"
    /\ sync' = SyncRun(seen, n)
    /\ cls' = ClsIdle
    /\ retry' = RetryIdle
    /\ UNCHANGED storeVars

\* as SyncMessage, but without the test mid in seen
SyncMessageIgnoringCache(subject_none, subject, text) ==
    /\ sync.pc = "loop"
    /\ sync.i < sync.n
    /\ LET mid == sync.i + 1
           m == [ sync EXCEPT !.subject_none = subject_none, !.response = << >>,
                              !.parsed = << >>, !.merged = FALSE ]
       IN  IF FALSE
           THEN /\ sync' = [ m EXCEPT !.i = mid ]
                /\ cls' = ClsIdle
                /\ retry' = RetryIdle
           ELSE IF subject_none
           THEN /\ sync' = [ m EXCEPT !.pc = "crashed", !.error = "TypeError" ]
                /\ cls' = ClsIdle
                /\ retry' = RetryIdle
           ELSE /\ sync' = [ m EXCEPT !.pc = "classify", !.ops[mid] = @ \cup { "classify" } ]
                /\ ClsStart(subject, FALSE, text)
    /\ UNCHANGED storeVars

\* the head of the loop body, lines 14-25: the message mid = i + 1 is
\* skipped, or its subject is printed and parse_email is entered
SyncMessage(subject_none, subject, text) ==
    /\ sync.pc = "loop"
    /\ sync.i < sync.n
    /\ LET mid == sync.i + 1
           m == [ sync EXCEPT !.subject_none = subject_none, !.response = << >>,
                              !.parsed = << >>, !.merged = FALSE ]
       IN  IF mid \in sync.seen
           THEN /\ sync' = [ m EXCEPT !.i = mid ]
                /\ cls' = ClsIdle
                /\ retry' = RetryIdle
           ELSE IF subject_none
           THEN /\ sync' = [ m EXCEPT !.pc = "crashed", !.error = "TypeError" ]
                /\ cls' = ClsIdle
                /\ retry' = RetryIdle
           ELSE /\ sync' = [ m EXCEPT !.pc = "classify", !.ops[mid] = @ \cup { "classify" } ]
                /\ ClsStart(subject, FALSE, text)
    /\ UNCHANGED storeVars

\* is_job_application is calling the classification chain
SyncClassifyInvoke(out) ==
    /\ sync.pc = "classify"
    /\ ClsInvoke(out)
    /\ UNCHANGED << storeVars, sync >>

SyncClassifyFinish ==
    /\ sync.pc = "classify"
    /\ ClsFinish
    /\ UNCHANGED << storeVars, sync >>

\* as SyncClassified, but the extraction chain is called whatever the verdict
SyncClassifiedIgnoringVerdict ==
    /\ sync.pc = "classify"
    /\ cls.pc = "done"
    /\ IF FALSE
       THEN /\ sync' = [ sync EXCEPT !.pc = "loop", !.i = @ + 1,
                                     !.new_ids = @ \cup { sync.i + 1 },
                                     !.verdicts[sync.i + 1] = cls.verdict ]
            /\ retry' = RetryIdle
            /\ cls' = ClsIdle
       ELSE /\ sync' = [ sync EXCEPT !.pc = "extract", !.verdicts[sync.i + 1] = cls.verdict ]
            /\ RetryStart(max_retries_default, delay_default)
            /\ cls' = ClsIdle
    /\ UNCHANGED storeVars

\* parse_email lines 240-254: not an application, return None and go to the
\* next message; else call the extraction chain
SyncClassified ==
    /\ sync.pc = "classify"
    /\ cls.pc = "done"
    /\ IF cls.verdict = "False"
       THEN /\ sync' = [ sync EXCEPT !.pc = "loop", !.i = @ + 1,
                                     !.new_ids = @ \cup { sync.i + 1 },
                                     !.verdicts[sync.i + 1] = cls.verdict ]
            /\ retry' = RetryIdle
            /\ cls' = ClsIdle
       ELSE /\ sync' = [ sync EXCEPT !.pc = "extract", !.verdicts[sync.i + 1] = cls.verdict ]
            /\ RetryStart(max_retries_default, delay_default)
            /\ cls' = ClsIdle
    /\ UNCHANGED storeVars

\* one invocation of the extraction chain inside invoke_with_retry
SyncExtractInvoke(out) ==
    /\ sync.pc = "extract"
    /\ RetryAttempt(out)
    /\ sync' = [ sync EXCEPT !.ops[sync.i + 1] = @ \cup { "extract" } ]
    /\ UNCHANGED << storeVars, cls >>

\* parse_email lines 256-278 and daily_sync lines 27-62: the rest of the
\* loop body once invoke_with_retry has ended
SyncExtracted(idRaises, coRaises, writeRaises) ==
    /\ sync.pc = "extract"
    /\ retry.pc \in { "returned", "raised" }
    /\ LET parsed == ParsedContent(retry.result, retry.value)
           m == [ sync EXCEPT !.parsed = parsed,
                              !.response = IF retry.result = "value" THEN retry.value ELSE << >> ]
       IN  IF parsed = << >>
           THEN /\ sync' = [ m EXCEPT !.pc = "loop", !.i = @ + 1,
                                      !.new_ids = @ \cup { sync.i + 1 } ]
                /\ UNCHANGED storeVars
           ELSE IF ~JsonDoc(parsed[1]).is_object
           THEN /\ sync' = [ m EXCEPT !.pc = "crashed", !.error = "AttributeError" ]
                /\ UNCHANGED storeVars
           ELSE /\ create_or_update_entry(CandidateOf(JsonDoc(parsed[1])),
                                          idRaises, coRaises, writeRaises)
                /\ sync' = [ m EXCEPT !.pc = "loop", !.i = @ + 1, !.merged = TRUE,
                                      !.new_ids = @ \cup { sync.i + 1 },
                                      !.ops[sync.i + 1] = @ \cup { "store" } ]
    /\ retry' = RetryIdle
    /\ UNCHANGED cls

\* as SyncSave, but only the ids added in this run are written
SyncSaveOnlyNew ==
    /\ sync.pc = "loop"
    /\ sync.i = sync.n
    /\ sync' = [ sync EXCEPT !.pc = "done", !.saved = sync.new_ids \ sync.seen, !.saves = @ + 1 ]
    /\ UNCHANGED << storeVars, retry, cls >>

\* save_cache(new_ids)
SyncSave ==
    /\ sync.pc = "loop"
    /\ sync.i = sync.n
    /\ sync' = [ sync EXCEPT !.pc = "done", !.saved = sync.new_ids, !.saves = @ + 1 ]
    /\ UNCHANGED << storeVars, retry, cls >>

\* a later run of daily_sync: load_cache() gives what the run before saved,
\* or what that run had loaded when it did not reach save_cache
SyncAgain(n) ==
    /\ sync.pc \in { "done", "crashed" }
    /\ ~sync.later
    /\ sync' = [ SyncRun(IF sync.pc = "done" THEN sync.saved ELSE sync.seen, n)
                   EXCEPT !.later = TRUE,
                          !.completed = IF sync.pc = "done" THEN 1..sync.n ELSE {} ]
    /\ cls' = ClsIdle
    /\ retry' = RetryIdle
    /\ UNCHANGED storeVars

(***************************************************************************)
(* JobSyncWorkflow (workflows/job_sync_workflow.py): fetch_emails, then    *)
(* process_emails with one call of the model for the whole batch, then     *)
(* create_entries.                                                         *)
(***************************************************************************)
MaxApps == 2          \* applications the batch response lists

\* json.loads(content) gives a list: the elements between the brackets
IsJsonArray(content) ==
    \/ content = << "[]" >>
    \/ /\ Len(content) >= 2
       /\ content[1] = "[" /\ content[Len(content)] = "]"
       /\ \A k \in 2..(Len(content) - 1) : content[k] \in JsonDocs

ArrayElements(content) ==
    IF content = << "[]" >> THEN << >> ELSE SubSeq(content, 2, Len(content) - 1)

\* JobApplicationData(...) of one element (lines 176-185) raises: the
\* element has no get, or applied_on is not a str
ElementRaises(word) ==
    \/ ~JsonDoc(word).is_object
    \/ DateOrToday(JsonDoc(word)) = None

\* one of the except clauses of _llm_process_all_emails is entered
BatchFails(kind, text) ==
    \/ kind # "ok"
    \/ ~IsJsonArray(CleanContent(text))
    \/ \E k \in 1..Len(ArrayElements(CleanContent(text))) :
           ElementRaises(ArrayElements(CleanContent(text))[k])

\* the elements before the first one whose conversion raises
RECURSIVE ConvertedPrefix(_)
ConvertedPrefix(elems) ==
    IF elems = << >> \/ ElementRaises(Head(elems)) THEN << >>
    ELSE << CandidateOf(JsonDoc(Head(elems))) >> \o ConvertedPrefix(Tail(elems))

\* as BatchApplications, but the except clause returns the applications
\* converted so far
BatchApplicationsKeepingPrefix(kind, text) ==
    IF kind # "ok" THEN << >>
    ELSE IF ~IsJsonArray(CleanContent(text)) THEN << >>
    ELSE ConvertedPrefix(ArrayElements(CleanContent(text)))

\* _llm_process_all_emails (lines 157-197): the applications of the
\* response, or [] when the call raises, the content is not JSON, or the
\* conversion of any element raises
BatchApplications(kind, text) ==
    IF BatchFails(kind, text) THEN << >>
    ELSE ConvertedPrefix(ArrayElements(CleanContent(text)))

WfIdle ==
    [ pc |-> "idle", n |-> 0, fetch_failed |-> FALSE, llm_calls |-> 0,
      llm_failed |-> FALSE, applications |-> << >>, k |-> 0,
      processed_emails |-> << >>, errors |-> << >>, store_calls |-> 0 ]

\* run() with the default initial state, then _fetch_emails_node: n
\* messages, or the error of a failed fetch
WfFetch(raises, n) ==
    /\ wf.pc = "idle"
    /\ wf' = IF raises
             THEN [ wf EXCEPT !.pc = "process", !.fetch_failed = TRUE,
                              !.errors = << [ k |-> 0, entry |-> "Error fetching" ] >> ]
             ELSE [ wf EXCEPT !.pc = "process", !.n = n ]
    /\ UNCHANGED << storeVars, retry, cls, sync >>

\* _process_emails_node: nothing without messages, else one call to the model
WfProcess(out) ==
    /\ wf.pc = "process"
    /\ wf' = IF wf.n = 0
             THEN [ wf EXCEPT !.pc = "create" ]
             ELSE [ wf EXCEPT !.pc = "create", !.llm_calls = @ + 1,
                              !.llm_failed = BatchFails(out.kind, out.text),
                              !.applications = BatchApplications(out.kind, out.text) ]
    /\ UNCHANGED << storeVars, retry, cls, sync >>

\* as WfCreateEntry, but a failed candidate is only printed, as daily_sync
\* does, and not appended to errors
WfCreateEntryPrintingFailure(idRaises, coRaises, writeRaises) ==
    /\ wf.pc = "create"
    /\ wf.k < Len(wf.applications)
    /\ create_or_update_entry(wf.applications[wf.k + 1], idRaises, coRaises, writeRaises)
    /\ wf' = IF last'.result # NoPage
             THEN [ wf EXCEPT !.k = @ + 1, !.store_calls = @ + 1,
                       !.processed_emails =
                           Append(@, [ k |-> wf.k + 1,
                                       entry |-> IF last'.was_updated THEN "Updated" ELSE "Created" ]) ]
             ELSE [ wf EXCEPT !.k = @ + 1, !.store_calls = @ + 1 ]
    /\ UNCHANGED << retry, cls, sync >>

\* one pass of the loop of _create_entries_node (lines 234-263)
WfCreateEntry(idRaises, coRaises, writeRaises) ==
    /\ wf.pc = "create"
    /\ wf.k < Len(wf.applications)
    /\ create_or_update_entry(wf.applications[wf.k + 1], idRaises, coRaises, writeRaises)
    /\ wf' = IF last'.result # NoPage
             THEN [ wf EXCEPT !.k = @ + 1, !.store_calls = @ + 1,
                       !.processed_emails =
                           Append(@, [ k |-> wf.k + 1,
                                       entry |-> IF last'.was_updated THEN "Updated" ELSE "Created" ]) ]
             ELSE [ wf EXCEPT !.k = @ + 1, !.store_calls = @ + 1,
                       !.errors = Append(@, [ k |-> wf.k + 1, entry |-> "Failed to create" ]) ]
    /\ UNCHANGED << retry, cls, sync >>

\* _create_entries_node returns and the graph ends
WfEnd ==
    /\ wf.pc = "create"
    /\ wf.k = Len(wf.applications)
    /\ wf' = [ wf EXCEPT !.pc = "end" ]
    /\ UNCHANGED << storeVars, retry, cls, sync >>

(***************************************************************************)
(* Candidates handed to create_or_update_entry.                            *)
(***************************************************************************)
NoCand ==
    [ company |-> "", job_title |-> "", status |-> "Applied",
      applied_on |-> DateSeq[1], notes |-> << >>, app_id |-> NoId ]

\* candidates that differ in identity: company, job title, Application ID
IdentityCandidates ==
    [ company : Companies \cup { "" }, job_title : Titles \cup { "" },
      status : { "Applied" }, applied_on : { DateSeq[1] }, notes : { << >> },
      app_id : AppIds \cup { NoId } ]

\* candidates for one application that differ in the merged fields
MergeCandidates ==
    [ company : { "Acme" }, job_title : { "Engineer" },
      status : Statuses, applied_on : Dates, notes : NoteTexts,
      app_id : { NoId } ]

Init ==
    /\ pages = << >>
    /\ prev = << >>
    /\ last = Outcome(NoCand, "none", NoPage, NoPage, FALSE, << >>, {})
    /\ retry = RetryIdle
    /\ cls = ClsIdle
    /\ sync = SyncIdle
    /\ wf = WfIdle

\* calls that differ in identity, with every store failure; a call to the
\* store that is not made (lines 38-46) does not raise
Next ==
    \E c \in IdentityCandidates, idRaises \in BOOLEAN, coRaises \in BOOLEAN,
       writeRaises \in BOOLEAN :
        /\ MissingRequired(c) => ~(idRaises \/ coRaises \/ writeRaises)
        /\ c.app_id = NoId => ~idRaises
        /\ create_or_update_entry(c, idRaises, coRaises, writeRaises)
        /\ UNCHANGED nonStoreVars

Spec == Init /\ [][Next]_vars

\* calls for one application, the store's queries answering
NextMerge ==
    \E c \in MergeCandidates, writeRaises \in BOOLEAN :
        /\ create_or_update_entry(c, FALSE, FALSE, writeRaises)
        /\ UNCHANGED nonStoreVars

SpecMerge == Init /\ [][NextMerge]_vars

\* candidates for one application, some without company or job title
ValidateCandidates ==
    [ company : { "Acme", "" }, job_title : { "Engineer", "" },
      status : { "Applied" }, applied_on : { DateSeq[1] },
      notes : { << >> }, app_id : AppIds \cup { NoId } ]

\* calls with and without the required fields, with every store failure
NextValidate ==
    \E c \in ValidateCandidates, idRaises \in BOOLEAN, coRaises \in BOOLEAN,
       writeRaises \in BOOLEAN :
        /\ create_or_update_entry(c, idRaises, coRaises, writeRaises)
        /\ UNCHANGED nonStoreVars

SpecValidate == Init /\ [][NextValidate]_vars

\* calls that differ in identity, no call to the store raising
NextReliable ==
    \E c \in IdentityCandidates :
        /\ create_or_update_entry(c, FALSE, FALSE, FALSE)
        /\ UNCHANGED nonStoreVars

SpecReliable == Init /\ [][NextReliable]_vars

\* what one invocation of the chain can do
ChainOutcomes ==
    { [ kind |-> "ok", text |-> << "response" >> ] }
        \cup { [ kind |-> "error", text |-> t ] : t \in ErrorTexts }

\* one call of invoke_with_retry against every sequence of chain outcomes
NextRetry ==
    /\ \/ \E max_retries \in 0..MaxRetriesArg, delay \in DelayArgs :
              retry.pc = "idle" /\ RetryStart(max_retries, delay)
       \/ \E out \in ChainOutcomes : RetryAttempt(out)
       \/ RetryExhausted
    /\ UNCHANGED << storeVars, cls, sync, wf >>

SpecRetry == Init /\ [][NextRetry]_vars

\* every pass of the loop completes: the chain returns or raises, the sleep ends
SpecRetryFair == SpecRetry /\ WF_vars(NextRetry)

\* phrases of the messages: one of each rule table, capitalised, and a
\* phrase no table holds
Phrases == { "GitHub Actions", "Interview", "New Jobs", "hello" }

RECURSIVE SeqsUpTo(_, _)
SeqsUpTo(S, n) ==
    IF n = 0 THEN { << >> }
    ELSE LET shorter == SeqsUpTo(S, n - 1)
         IN  shorter \cup { Append(q, x) : q \in shorter, x \in S }

Subjects == SeqsUpTo(Phrases, 1)
Bodies == SeqsUpTo(Phrases, MaxBodyLen)

\* the responses of the classification chain
ClassificationResponses ==
    { << "APPLICATION" >>, << " ", "application", "\n\n" >>, << "NOTIFICATION" >>,
      << "OTHER" >>, << "APPLICATION", "or", "NOTIFICATION" >>, << >> }

ClassificationOutcomes ==
    { [ kind |-> "ok", text |-> t ] : t \in ClassificationResponses }
        \cup { [ kind |-> "error", text |-> t ] : t \in ErrorTexts }

\* one call of is_job_application on every message, the chain doing anything
NextClassify ==
    /\ \/ \E subject \in Subjects, sender_none \in BOOLEAN, text \in Bodies :
              cls.pc = "idle" /\ ClsStart(subject, sender_none, text)
       \/ \E out \in ClassificationOutcomes : ClsInvoke(out)
       \/ ClsFinish
    /\ UNCHANGED << storeVars, sync, wf >>

SpecClassify == Init /\ [][NextClassify]_vars

\* the subjects of the messages of a run: one the rules take for an
\* application, one they take for a job alert, one they leave to the service
SyncSubjects == { << "Interview" >>, << "New Jobs" >>, << "hello" >> }

SyncErrorTexts == { << "Error", "code:", "429" >>, << "Internal", "server", "error" >> }

SyncClassificationOutcomes ==
    { [ kind |-> "ok", text |-> t ] : t \in { << "APPLICATION" >>, << "NOTIFICATION" >> } }
        \cup { [ kind |-> "error", text |-> t ] : t \in SyncErrorTexts }

\* the responses of the extraction chain
ExtractionResponses ==
    { << "{interview}" >>, << Fence, "json", "{interview}", Fence >>,
      << "{pending}" >>, << "{nodate}" >>, << "{nulldate}" >>, << "[]" >>,
      << "Sorry,", "no", "JSON" >> }

SyncExtractionOutcomes ==
    { [ kind |-> "ok", text |-> t ] : t \in ExtractionResponses }
        \cup { [ kind |-> "error", text |-> t ] : t \in SyncErrorTexts }

\* runs of daily_sync over every batch, the services and the store doing anything
NextSync ==
  /\ UNCHANGED wf
  /\
    \/ \E seen \in SUBSET (1..(MaxEmails + 1)), n \in 0..MaxEmails : SyncStart(seen, n)
    \/ \E subject_none \in BOOLEAN, subject \in SyncSubjects : SyncMessage(subject_none, subject, << >>)
    \/ \E out \in SyncClassificationOutcomes : SyncClassifyInvoke(out)
    \/ SyncClassifyFinish
    \/ SyncClassified
    \/ \E out \in SyncExtractionOutcomes : SyncExtractInvoke(out)
    \/ \E idRaises \in BOOLEAN, coRaises \in BOOLEAN, writeRaises \in BOOLEAN :
           SyncExtracted(idRaises, coRaises, writeRaises)
    \/ SyncSave
    \/ \E n \in 0..MaxEmails : SyncAgain(n)

SpecSync == Init /\ [][NextSync]_vars

\* the outcomes that decide the path of a message through daily_sync: the
\* classification chain answers either label or fails, the extraction
\* chain answers an application, text that is not JSON, or fails
FlowClassificationOutcomes ==
    { [ kind |-> "ok", text |-> << "APPLICATION" >> ],
      [ kind |-> "ok", text |-> << "NOTIFICATION" >> ],
      [ kind |-> "error", text |-> << "Internal", "server", "error" >> ] }

FlowExtractionOutcomes ==
    { [ kind |-> "ok", text |-> << "{interview}" >> ],
      [ kind |-> "ok", text |-> << "Sorry,", "no", "JSON" >> ],
      [ kind |-> "error", text |-> << "Internal", "server", "error" >> ] }

\* runs of daily_sync over every batch and every path of a message, the
\* store doing anything
NextSyncFlow ==
  /\ UNCHANGED wf
  /\
    \/ \E seen \in SUBSET (1..(MaxEmails + 1)), n \in 0..MaxEmails : SyncStart(seen, n)
    \/ \E subject_none \in BOOLEAN, subject \in SyncSubjects : SyncMessage(subject_none, subject, << >>)
    \/ \E out \in FlowClassificationOutcomes : SyncClassifyInvoke(out)
    \/ SyncClassifyFinish
    \/ SyncClassified
    \/ \E out \in FlowExtractionOutcomes : SyncExtractInvoke(out)
    \/ \E idRaises \in BOOLEAN, coRaises \in BOOLEAN, writeRaises \in BOOLEAN :
           SyncExtracted(idRaises, coRaises, writeRaises)
    \/ SyncSave
    \/ \E n \in 0..MaxEmails : SyncAgain(n)

SpecSyncFlow == Init /\ [][NextSyncFlow]_vars

\* the elements of the batch response
BatchElements == { "{interview}", "{nodate}", "{nulldate}", "{nocompany}", "{globex}", "[]" }

\* the responses of the model to the batch prompt: arrays, bare and fenced,
\* an object, and text that is not JSON
BatchResponses ==
    { << "[" >> \o e \o << "]" >> : e \in SeqsUpTo(BatchElements, MaxApps) }
        \cup { << Fence, "json", "[", "{interview}", "]", Fence >>, << "[]" >>,
               << "{interview}" >>, << "Sorry,", "no", "JSON" >> }

BatchOutcomes ==
    { [ kind |-> "ok", text |-> t ] : t \in BatchResponses }
        \cup { [ kind |-> "error", text |-> t ] : t \in SyncErrorTexts }

\* runs of the workflow over every batch, the services and the store doing anything
NextBatch ==
    \/ \E raises \in BOOLEAN, n \in 0..MaxEmails : WfFetch(raises, n)
    \/ \E out \in BatchOutcomes : WfProcess(out)
    \/ \E idRaises \in BOOLEAN, coRaises \in BOOLEAN, writeRaises \in BOOLEAN :
           WfCreateEntry(idRaises, coRaises, writeRaises)
    \/ WfEnd

SpecBatch == Init /\ [][NextBatch]_vars

\* every node of the graph returns: the calls it makes return or raise
SpecBatchFair == SpecBatch /\ WF_vars(NextBatch)

TypeOK ==
    /\ Len(pages) <= MaxRecords
    /\ \A i \in 1..Len(pages) : Len(pages[i].notes) <= MaxNotesLen
    /\ last.op \in { "none", "refused", "updated", "update_failed",
                     "created", "create_failed" }
(***************************************************************************)
(* Vocabulary of the properties.                                           *)
(***************************************************************************)
ProgressionOrder == << "Applied", "Assessment", "Interview", "Offer" >>

Rank(s) == CHOOSE i \in 1..Len(ProgressionOrder) : ProgressionOrder[i] = s

\* s2 is lower-ranked than s1 in Applied < Assessment < Interview < Offer
LowerRanked(s2, s1) ==
    /\ s1 # "Rejected"
    /\ s2 # "Rejected"
    /\ Rank(s2) < Rank(s1)

DateIndex(d) == CHOOSE i \in 1..Len(DateSeq) : DateSeq[i] = d

\* ISO dates: d1 is strictly earlier than d2
Earlier(d1, d2) == DateIndex(d1) < DateIndex(d2)

\* the last call updated a stored page
Updated == last.op = "updated"

\* the page the last call matched, before and after the call
Before == prev[last.existing]
After == pages[last.existing]

\* the last call went through validation and resolution
Resolved == last.op \in { "updated", "update_failed", "created", "create_failed" }

IdMatches == { i \in 1..Len(prev) : last.cand.app_id # NoId /\ prev[i].app_id = last.cand.app_id }

KeyMatches ==
    { i \in 1..Len(prev) : /\ prev[i].company = last.cand.company
                           /\ prev[i].job_title = last.cand.job_title }

\* C1: an update whose candidate status is lower-ranked than the stored
\* status (Applied < Assessment < Interview < Offer) leaves the stored
\* status as it was.
NoStatusRegression ==
    (Updated /\ LowerRanked(last.cand.status, Before.status))
        => After.status = Before.status

\* C2: once a stored page's status is Rejected, it is Rejected after every
\* later call, whatever status the candidates carry.
RejectedTerminality ==
    [][ \A i \in 1..Len(pages) :
            pages[i].status = "Rejected" => pages'[i].status = "Rejected" ]_vars

\* C3: a call that repeats the candidate of the call before it, both calls
\* having written to the store, leaves the store exactly as the first call
\* left it.
IdempotentMerge ==
    [][ ( /\ last.op \in { "created", "updated" }
          /\ last'.cand = last.cand
          /\ last'.op \in { "created", "updated" } )
        => pages' = pages ]_vars

\* C4: no two stored pages have the same (company, job_title) and no two
\* have the same non-empty Application ID.
UniqueIdentity ==
    \A i, j \in 1..Len(pages) :
        i # j =>
            /\ ~(pages[i].company = pages[j].company /\ pages[i].job_title = pages[j].job_title)
            /\ ~(pages[i].app_id # NoId /\ pages[i].app_id = pages[j].app_id)

\* C5: an update of a page that has an Application ID leaves that ID as it
\* was, whatever ID the candidate carries; the candidate's ID is written
\* only when the page had none.
ExternalIdNeverOverwritten ==
    Updated =>
        After.app_id = IF Before.app_id # NoId THEN Before.app_id ELSE last.cand.app_id

\* the text "[Update <applied_on>] <note>"
UpdateText(applied_on, note) == << "[Update ", applied_on, "]", " " >> \o note

\* new is old followed by white space and then text
AppendedTo(old, text, new) ==
    /\ Len(new) >= Len(old) + Len(text)
    /\ SubSeq(new, 1, Len(old)) = old
    /\ SubSeq(new, Len(new) - Len(text) + 1, Len(new)) = text
    /\ \A k \in (Len(old) + 1)..(Len(new) - Len(text)) : IsSpace(new[k])

\* C6: on update "[Update <applied_on>] <note>" is appended to the stored
\* notes if and only if the candidate's note is non-empty and not already
\* a substring of them; otherwise the notes are unchanged; in every case
\* the notes stored before are contained in the notes stored after.
NotesAppendedOnlyWhenNew ==
    Updated =>
        /\ IF last.cand.notes # << >> /\ ~IsSubstring(last.cand.notes, Before.notes)
           THEN AppendedTo(Before.notes, UpdateText(last.cand.applied_on, last.cand.notes),
                           After.notes)
           ELSE After.notes = Before.notes
        /\ IsSubstring(Before.notes, After.notes)

\* C7: an update whose candidate date is strictly earlier than the stored
\* applied_on sets applied_on to the candidate's date.
EarliestAppliedOnWins ==
    (Updated /\ Earlier(last.cand.applied_on, Before.applied_on))
        => After.applied_on = last.cand.applied_on

\* C8: an update whose candidate date is later than or equal to the stored
\* applied_on leaves applied_on unchanged.
AppliedOnNeverLater ==
    (Updated /\ ~Earlier(last.cand.applied_on, Before.applied_on))
        => After.applied_on = Before.applied_on

\* C8 witness: a page was updated by a candidate dated strictly later.
LaterDateMerged ==
    /\ Updated
    /\ Earlier(Before.applied_on, last.cand.applied_on)

\* C9: when the candidate's Application ID equals that of a stored page,
\* resolution selects a page with that ID and nothing is created, whatever
\* the candidate's company and job title are.
IdentityPrecedence ==
    (Resolved /\ IdMatches # {})
        => /\ last.existing \in IdMatches
           /\ Len(pages) = Len(prev)

\* C10: when the candidate has no Application ID or its ID matches no
\* stored page, resolution selects a page if and only if a stored page has
\* exactly the candidate's company and job title, and that page is one of
\* them; a page is created only when neither tier matches, and a create is
\* attempted whenever neither does.
TierTwoFallback ==
    /\ (Resolved /\ IdMatches = {})
           => /\ (last.existing # NoPage) <=> (KeyMatches # {})
              /\ last.existing # NoPage => last.existing \in KeyMatches
    /\ last.op = "created" => (IdMatches = {} /\ KeyMatches = {})
    /\ (Resolved /\ IdMatches = {} /\ KeyMatches = {})
           => last.op \in { "created", "create_failed" }
\* the last call was made (the initial state has no call)
Called == last.op # "none"

\* C11: a candidate whose company or job_title is empty is refused: the
\* call returns (None, False), issues no query, create or update, and
\* leaves the store as it was.
ValidationRefusal ==
    (Called /\ (last.cand.company = "" \/ last.cand.job_title = ""))
        => /\ last.op = "refused"
           /\ last.result = NoPage
           /\ last.was_updated = FALSE
           /\ last.calls = << >>
           /\ pages = prev

\* C11 witness: a candidate with an Application ID but no job title was
\* refused while the store held a page.
RefusedWithStoredPage ==
    /\ last.op = "refused"
    /\ last.cand.app_id # NoId
    /\ last.cand.company # ""
    /\ Len(pages) > 0

\* the last call added exactly one page, equal to the candidate, and
\* reported Created
CreatedVerbatim ==
    /\ Len(pages) = Len(prev) + 1
    /\ SubSeq(pages, 1, Len(prev)) = prev
    /\ pages[Len(pages)].company = last.cand.company
    /\ pages[Len(pages)].job_title = last.cand.job_title
    /\ pages[Len(pages)].status = last.cand.status
    /\ pages[Len(pages)].applied_on = last.cand.applied_on
    /\ pages[Len(pages)].notes = last.cand.notes
    /\ pages[Len(pages)].app_id = last.cand.app_id
    /\ last.result = Len(pages)
    /\ last.was_updated = FALSE

\* the last call found a page, wrote it, created nothing and reported Updated
UpdatedNotCreated ==
    /\ Len(pages) = Len(prev)
    /\ last.result = last.existing
    /\ last.was_updated = TRUE

\* C12 as stated: whenever resolution finds no existing page, exactly one
\* page equal to the candidate is created and the action is Created;
\* whenever a page is found and the write succeeds, nothing is created and
\* the action is Updated.
CreateVerbatimAlways ==
    /\ (Resolved /\ last.existing = NoPage) => CreatedVerbatim
    /\ (Resolved /\ last.existing # NoPage /\ "update" \notin last.raised)
           => UpdatedNotCreated

\* C12 amended: when resolution finds no existing page and pages.create
\* does not raise, exactly one page equal to the candidate is created and
\* the action is Created; when a page is found and pages.update does not
\* raise, nothing is created and the action is Updated.
CreateVerbatimWhenWritten ==
    /\ (Resolved /\ last.existing = NoPage /\ "create" \notin last.raised)
           => CreatedVerbatim
    /\ (Resolved /\ last.existing # NoPage /\ "update" \notin last.raised)
           => UpdatedNotCreated

\* C12 witness: a page was created from a candidate that is not Applied
\* and carries a note.
CreatedFromRichCandidate ==
    /\ last.op = "created"
    /\ last.cand.status # "Applied"
    /\ last.cand.notes # << >>

\* C20: when the lookup by Application ID or the lookup by company raises,
\* the call fails and writes nothing: no create or update is issued and the
\* store is as it was.
QueryFailureFailsCall ==
    (Called /\ last.raised \cap { "query_app_id", "query_company" } # {})
        => /\ last.result = NoPage
           /\ pages = prev
           /\ \A k \in 1..Len(last.calls) : last.calls[k] \notin { "create", "update" }
RetryDone == retry.pc \in { "returned", "raised" }

\* the chain was invoked at most max_retries times, the k-th wait is
\* delay*k and the waits strictly increase, and a response ends the call
\* at once and is its result
RetryBounded ==
    /\ Len(retry.outcomes) <= retry.max_retries
    /\ \A k \in 1..Len(retry.waits) : retry.waits[k] = retry.delay * k
    /\ \A k \in 1..(Len(retry.waits) - 1) : retry.waits[k] < retry.waits[k + 1]
    /\ \A k \in 1..Len(retry.waits) :
           retry.outcomes[k].kind = "error" /\ is_rate_limit(retry.outcomes[k].text)
    /\ Len(retry.waits) = Len(retry.outcomes) - (IF RetryDone /\ retry.outcomes # << >> THEN 1 ELSE 0)
    /\ \A k \in 1..Len(retry.outcomes) :
           retry.outcomes[k].kind = "ok"
               => /\ k = Len(retry.outcomes)
                  /\ retry.pc = "returned"
                  /\ retry.result = "value"
                  /\ retry.value = retry.outcomes[k].text

\* C16: invoke_with_retry invokes the chain at most max_retries times and
\* then terminates; the wait before the k-th retry is delay*k, so the waits
\* strictly increase; a response on any attempt is returned at once.
BoundedRetry ==
    /\ []RetryBounded
    /\ (retry.pc = "running") ~> RetryDone

\* C16 witness: a call returned the response of its third invocation,
\* after two waits.
ReturnedAfterTwoRetries ==
    /\ retry.pc = "returned"
    /\ retry.result = "value"
    /\ Len(retry.waits) = 2

\* C17: when every one of the max_retries invocations fails with a
\* rate-limit error, invoke_with_retry returns None and does not raise.
ExhaustedReturnsNone ==
    ( /\ RetryDone
      /\ Len(retry.outcomes) = retry.max_retries
      /\ \A k \in 1..Len(retry.outcomes) :
             retry.outcomes[k].kind = "error" /\ is_rate_limit(retry.outcomes[k].text) )
        => (retry.pc = "returned" /\ retry.result = "None")
ClsDone == cls.pc = "done"

\* a keyword of the table is in the subject or in the first 500 characters
\* of the body of the classified message
Matches(keywords) ==
    \/ \E k \in 1..Len(cls.subject) : LowerWord(cls.subject[k]) \in keywords
    \/ \E k \in 1..Len(cls.text) : k <= BodyWindow /\ LowerWord(cls.text[k]) \in keywords

\* the generation service was not called
NoLlmCall == retry.pc = "idle" /\ retry.outcomes = << >>

\* C13: a message that holds both an OTHER phrase and an APPLICATION phrase
\* is classified as not an application, without a call to the generation
\* service.
OtherFirst ==
    (ClsDone /\ Matches(other_keywords) /\ Matches(application_patterns))
        => (cls.verdict = "False" /\ NoLlmCall)

\* C13 witness: a message with an OTHER phrase in the subject and an
\* APPLICATION phrase in the body was classified.
ClassifiedOtherAndApplication ==
    /\ ClsDone
    /\ \E k \in 1..Len(cls.subject) : LowerWord(cls.subject[k]) \in other_keywords
    /\ \E k \in 1..Len(cls.text) : k <= BodyWindow /\ LowerWord(cls.text[k]) \in application_patterns

\* C14: a message that holds no OTHER phrase and both an APPLICATION phrase
\* and a NOTIFICATION phrase is classified as an application, without a
\* call to the generation service.
ApplicationBeforeNotification ==
    ( /\ ClsDone
      /\ ~Matches(other_keywords)
      /\ Matches(application_patterns)
      /\ Matches(notification_keywords) )
        => (cls.verdict = "True" /\ NoLlmCall)

\* C14 witness: a message with a NOTIFICATION phrase followed by an
\* APPLICATION phrase in the body, and no OTHER phrase, was classified.
ClassifiedApplicationAndNotification ==
    /\ ClsDone
    /\ ~Matches(other_keywords)
    /\ Len(cls.text) >= 2
    /\ LowerWord(cls.text[1]) \in notification_keywords
    /\ LowerWord(cls.text[2]) \in application_patterns

\* no quick filter decided the classified message
NoRuleMatches ==
    /\ ~Matches(other_keywords)
    /\ ~Matches(application_patterns)
    /\ ~Matches(notification_keywords)

Labels == { << "APPLICATION" >>, << "NOTIFICATION" >>, << "OTHER" >> }

\* the call to the generation service failed: it raised (a permanent error
\* or the last rate-limit error), gave None, or could not be made
ServiceFailed == retry.result \in { "raised", "None" } \/ cls.sender_none

\* C15 as stated: when no rule matches and the service call fails or its
\* response is not exactly one of the three labels, the verdict is never
\* APPLICATION; is_job_application always ends with a verdict.
FailClosedExactLabel ==
    (ClsDone /\ NoRuleMatches /\ (ServiceFailed \/ retry.value \notin Labels))
        => cls.verdict = "False"

\* C15 amended: when no rule matches and the service call fails or its
\* response, stripped of surrounding white space and upper-cased, is not
\* one of the three labels, the verdict is never APPLICATION;
\* is_job_application always ends with a verdict.
FailClosedNormalisedLabel ==
    (ClsDone /\ NoRuleMatches /\ (ServiceFailed \/ Upper(Strip(retry.value)) \notin Labels))
        => cls.verdict = "False"

\* C15 witness: classification ended after the service answered with a
\* text that holds a label and more.
ClassifiedAfterWordyResponse ==
    /\ ClsDone
    /\ NoRuleMatches
    /\ retry.result = "value"
    /\ Len(retry.value) = 3
    /\ retry.value[1] = "APPLICATION"
\* the document the extraction chain answered with for the message just
\* handled, when its answer was a well-formed payload
AnsweredDoc == JsonDoc(CleanContent(sync.response)[1])

WellFormedPayload ==
    /\ IsJson(CleanContent(sync.response))
    /\ AnsweredDoc.is_object

\* C18: when the generation service answers with a well-formed payload
\* whose status is not one of the five statuses, parse_email returns None,
\* and no stored page ever carries such a status.
InvalidStatusIsFailure ==
    /\ (WellFormedPayload /\ AnsweredDoc.status \notin Statuses)
           => (sync.parsed = << >> /\ ~sync.merged)
    /\ \A k \in 1..Len(pages) : pages[k].status \in Statuses

\* C19: no message makes an exception escape the loop of daily_sync.
NoFatalMessage == sync.pc # "crashed"

(***************************************************************************)
(* The run of the workflow.                                                *)
(***************************************************************************)
\* what create_entries recorded for the candidate at position j
EntryOf(j) ==
    IF \E e \in 1..Len(wf.processed_emails) : wf.processed_emails[e].k = j
    THEN wf.processed_emails[
             CHOOSE e \in 1..Len(wf.processed_emails) : wf.processed_emails[e].k = j ].entry
    ELSE "Failed"

SameCompanyTitle(a, b) == a.company = b.company /\ a.job_title = b.job_title
SameExternalId(a, b) == a.app_id # NoId /\ a.app_id = b.app_id

\* the pages a candidate's key selects
PagesWithCompanyTitle(c) ==
    { p \in 1..Len(pages) : SameCompanyTitle(pages[p], c) }
PagesWithExternalId(c) ==
    { p \in 1..Len(pages) : SameExternalId(pages[p], c) }

\* C21: the merges of one run follow one another: when a candidate of the
\* run was Created and a later candidate of the same run with the same
\* (company, job_title) or the same external id was written too, the later
\* one was Updated, and the store holds one record with that key.
SerializedMerges ==
    \A i \in 1..wf.k : \A j \in (i + 1)..wf.k :
        LET a == wf.applications[i]
            b == wf.applications[j]
        IN  (/\ SameCompanyTitle(a, b) \/ SameExternalId(a, b)
             /\ EntryOf(i) = "Created"
             /\ EntryOf(j) # "Failed")
            => /\ EntryOf(j) = "Updated"
               /\ SameCompanyTitle(a, b) => Cardinality(PagesWithCompanyTitle(b)) = 1
               /\ SameExternalId(a, b) => Cardinality(PagesWithExternalId(b)) = 1

\* the writes the last call issued
WritesOfLastCall ==
    { k \in 1..Len(last.calls) : last.calls[k] \in { "create", "update" } }

\* the pages the last call changed or added
PagesWritten ==
    { p \in 1..Len(pages) : p > Len(prev) \/ pages[p] # prev[p] }

PageFields == { "company", "job_title", "status", "applied_on", "notes", "app_id" }

\* C22: a call of create_or_update_entry issues at most one write and
\* changes or adds at most one record, and at every point of a run every
\* stored record has a company, a job title and all of its fields.
AtomicMerge ==
    /\ Cardinality(WritesOfLastCall) <= 1
    /\ Cardinality(PagesWritten) <= 1
    /\ Len(pages) >= Len(prev)
    /\ \A p \in 1..Len(pages) :
           /\ pages[p].company # ""
           /\ pages[p].job_title # ""
           /\ DOMAIN pages[p] = PageFields

\* C22 witness: the run stands between two candidates, the first one
\* created in the store, the second one without a company still to come.
StoppedBetweenCandidates ==
    /\ wf.pc = "create"
    /\ wf.k = 1 /\ Len(wf.applications) = 2
    /\ wf.applications[2].company = ""
    /\ last.op = "created"

\* the entries create_entries appended to errors: all but the fetch error
CreateErrors == SelectSeq(wf.errors, LAMBDA e : e.k > 0)

\* how often the candidate at position j is recorded
TimesRecorded(j) ==
    Cardinality({ e \in 1..Len(wf.processed_emails) : wf.processed_emails[e].k = j })
        + Cardinality({ e \in 1..Len(CreateErrors) : CreateErrors[e].k = j })

\* C23: create_entries records every candidate it was handed exactly once,
\* as Created or Updated in processed_emails or as a failure in errors, so
\* the two lists grow by the number of candidates, and the loop goes on
\* after a failure.
EveryCandidateAccounted ==
    /\ \A j \in 1..wf.k : TimesRecorded(j) = 1
    /\ Len(wf.processed_emails) + Len(CreateErrors) = wf.k
    /\ \A e \in 1..Len(wf.processed_emails) :
           wf.processed_emails[e].entry \in { "Created", "Updated" }
    /\ wf.pc = "end" => wf.k = Len(wf.applications)

\* C23 witness: the run ended with a first candidate that failed and a
\* second one that was created.
EndedAfterFailureThenSuccess ==
    /\ wf.pc = "end"
    /\ Len(wf.applications) = 2
    /\ EntryOf(1) = "Failed"
    /\ EntryOf(2) = "Created"

(***************************************************************************)
(* The run of daily_sync.                                                  *)
(***************************************************************************)
\* C24: for a message of the run that is_job_application did not take for
\* an application (a rule said no, the service answered another label, or
\* the call failed), the extraction chain is not called and
\* create_or_update_entry is not called, so the store gets no query, create
\* or update for it.
NoExtractionForNonApplication ==
    \A mid \in DOMAIN sync.verdicts :
        sync.verdicts[mid] = "False" => sync.ops[mid] = { "classify" }

\* C24 witness: a run ended whose first message was not an application and
\* whose second message was extracted and handed to the store.
EndedWithNonApplicationAndMerge ==
    /\ sync.pc = "done"
    /\ sync.n = 2
    /\ sync.verdicts[1] = "False"
    /\ sync.ops[2] = SyncOps

\* C26: for a fetched message whose id is in the loaded cache nothing is
\* done: no classification, no extraction, no call to the store; and a
\* message of a run that reached its end is in the cache the next run
\* loads, so nothing is done for it in that run.
SeenSuppressed ==
    \A mid \in DOMAIN sync.ops :
        (mid \in sync.seen \/ mid \in sync.completed)
            => (sync.ops[mid] = {} /\ sync.verdicts[mid] = "none")

\* C26 witness: a later run ended that fetched again a message of the run
\* before it, which had written to the store.
LaterRunEndedAfterMerge ==
    /\ sync.later
    /\ sync.pc = "done"
    /\ sync.n = 2
    /\ sync.completed = { 1, 2 }
    /\ Len(pages) > 0

\* C27: when daily_sync ends, the saved cache is the loaded cache and the
\* ids of all fetched messages, whatever happened to each of them, and
\* save_cache was called once; before the end it is not called.
CacheAfterRun ==
    /\ sync.pc = "done" => /\ sync.saved = sync.seen \cup (1..sync.n)
                           /\ sync.saves = 1
    /\ sync.pc # "done" => sync.saves = 0

\* C27 witness: a run ended that had one id in the cache that was not
\* fetched, a first message whose extraction failed and a second message
\* whose write to the store failed.
EndedAfterFailures ==
    /\ sync.pc = "done"
    /\ sync.n = 2
    /\ sync.seen \ (1..sync.n) # {}
    /\ sync.ops[1] = { "classify", "extract" }
    /\ sync.ops[2] = SyncOps
    /\ last.op = "create_failed"

\* C25: when the payload of a message has no application_date or a null
\* one, the candidate daily_sync hands to create_or_update_entry has
\* today's date as applied_on.
DateDefaultsToToday ==
    (/\ sync.merged
     /\ sync.parsed # << >>
     /\ JsonDoc(sync.parsed[1]).application_date \in { Absent, None })
        => last.cand.applied_on = Today

(***************************************************************************)
(* The frame of an update.                                                 *)
(***************************************************************************)
\* C28: an update leaves the company and the job title of the updated
\* record as they were, keeps every record at its place in the store (its
\* record id), adds none and changes no other record; so also when the
\* record was matched by Application ID and the candidate's company or job
\* title differs.
UpdateFrame ==
    Updated
        => /\ After.company = Before.company
           /\ After.job_title = Before.job_title
           /\ Len(pages) = Len(prev)
           /\ \A p \in 1..Len(prev) : p # last.existing => pages[p] = prev[p]

\* C28 witness: a record was updated that was matched by Application ID, the
\* candidate naming another company and job title, a second record stored.
UpdatedByIdWithOtherIdentity ==
    /\ Updated
    /\ last.existing \in IdMatches
    /\ last.cand.company # Before.company
    /\ last.cand.job_title # Before.job_title
    /\ Len(pages) = 2

(***************************************************************************)
(* The errors invoke_with_retry does not retry.                            *)
(***************************************************************************)
\* the error texts that show none of "429", "rate limit", "too many
\* requests", "rate-limited", in any case
UnmarkedErrorTexts ==
    { << "Connection", "timed", "out" >>, << "Internal", "server", "error" >> }

\* C29: an error whose text shows no rate-limit marker ends the call on
\* the invocation that raised it, on whatever attempt: it is re-raised, with
\* no wait after it and no further invocation.
OnlyRateLimitRetried ==
    \A k \in 1..Len(retry.outcomes) :
        (retry.outcomes[k].kind = "error" /\ retry.outcomes[k].text \in UnmarkedErrorTexts)
            => /\ k = Len(retry.outcomes)
               /\ retry.pc = "raised"
               /\ retry.result = "raised"
               /\ retry.value = retry.outcomes[k].text
               /\ Len(retry.waits) = k - 1

\* C29 witness: the second invocation, after a retried rate-limit error,
\* raised a timeout, and the call raised it.
RaisedUnmarkedOnSecondAttempt ==
    /\ retry.pc = "raised"
    /\ Len(retry.outcomes) = 2
    /\ retry.outcomes[2].text = << "Connection", "timed", "out" >>
    /\ retry.max_retries = 3

(***************************************************************************)
(* The workflow after a failure of fetching or of the batch extraction.    *)
(***************************************************************************)
UpstreamFailed == wf.fetch_failed \/ wf.llm_failed

\* the list of applications is empty and the store was not called
NothingWritten ==
    /\ wf.applications = << >>
    /\ wf.store_calls = 0
    /\ wf.processed_emails = << >>
    /\ last.op = "none"
    /\ pages = << >>

\* C30: when fetching the messages fails, or the one extraction call of
\* the batch raises or answers with what cannot be parsed and converted,
\* the list of applications is empty and create_entries calls the store for
\* nothing, and the workflow goes on to its end.
NoWriteOnUpstreamFailure ==
    /\ [](UpstreamFailed => NothingWritten)
    /\ UpstreamFailed ~> (wf.pc = "end")

\* C30 witness: the workflow ended after the extraction call for a batch of
\* two messages had failed.
EndedAfterFailedExtraction ==
    /\ wf.pc = "end"
    /\ wf.llm_failed
    /\ wf.llm_calls = 1
    /\ wf.n = 2
====
